---- MODULE Spec2Model ----
(***************************************************************************)
(* A model of examples of react-docs-learn:                                *)
(*   - messengerReducer, initialState, useMyReducer and the messenger      *)
(*     component of managing_state/ExtractingStateLogicIntoAReducer.js,    *)
(*   - tasksReducer, initialTasks, nextId and the TaskApp components of    *)
(*     managing_state/PassingDataDeeplyWithContext.js,                     *)
(*   - the components with an effect of                                    *)
(*     escape_hatches/SynchronizingWithEffects.js and                      *)
(*     escape_hatches/SeparatingEventsFromEffects.js.                      *)
(*                                                                         *)
(* JavaScript objects live in a heap (a sequence of objects, an address is *)
(* an index), so that "a new object", "the same object" and "mutated in    *)
(* place" are different things in the model as they are in the code.       *)
(***************************************************************************)
EXTENDS Integers, Sequences, FiniteSets, TLC

VARIABLES
  heap,     \* the objects allocated so far (reducer harness)
  calls,    \* the reducer calls made so far, each with its heaps before and after
  nextId,   \* the module counter `let nextId = 4`
  state,    \* reducer hook: the state the hook has committed
  queue,    \* reducer hook: the updates queued for the next render
  status,   \* reducer hook: "mounted", or "crashed" once a render has thrown
  history,  \* useMyReducer: every action passed to dispatch, in call order
  last,     \* reducer hook: what the last step (a dispatch call or a render) did
  text,     \* AddTask: the `text` state of the "Add task" input
  comp,     \* the component with an effect that is mounted, "none" if none is
  hooks,    \* its props and its useState values, as of the last commit
  effects,  \* what its effect has set up so far: connections, intervals, requests
  chain,    \* GAME_CHAIN: its useState values, and the dependencies its effects last ran for
  game,     \* Game: its useState values
  placed,   \* the last handlePlaceCard call made on both, and what it did
  todo      \* the setups and cleanups React has yet to run for the last commit

vars == <<heap, calls, nextId, state, queue, status, history, last, text,
          comp, hooks, effects, todo, chain, game, placed>>

harnessVars == <<heap, calls, nextId>>
hookVars == <<state, queue, status, history, last>>
effectVars == <<comp, hooks, effects, todo>>
gameVars == <<chain, game, placed>>
formVars == <<text, effectVars, gameVars>>

----------------------------------------------------------------------------
(* Bounds of the model.                                                    *)

\* reducer calls made in one run of the harness
MaxCalls == 2
\* length of the task lists the harness starts from
MaxLen == 2
\* dispatch calls made on one useMyReducer container
MaxDispatch == 3

----------------------------------------------------------------------------
(* Values.                                                                 *)

\* the ids of `contacts`
ContactIds == {0, 1, 2}

\* the texts a textarea can hold in the model
Msgs == {"", "hi"}

\* ids of the task records the harness builds
TaskIds == {0, 1}

NextIdInit == 4

Digit == <<"0", "1", "2", "3", "4", "5", "6", "7", "8", "9">>

\* A computed property name [state.selectedId] is converted to a string: the
\* keys of the messages object are "0", "1", "2", never the numbers.
RECURSIVE ToPropertyKey(_)
ToPropertyKey(n) ==
  IF n < 10 THEN Digit[n + 1]
  ELSE ToPropertyKey(n \div 10) \o Digit[(n % 10) + 1]

Keys == {ToPropertyKey(c) : c \in ContactIds}

\* the objects { "k": text, ... } over the contacts' keys
MessageMaps == UNION {[D -> Msgs] : D \in SUBSET Keys}

MessengerTypes == {"changed_selection", "edited_message", "sent_message"}
TaskTypes == {"added", "changed", "deleted"}

----------------------------------------------------------------------------
(* The heap.                                                               *)

Alloc(h, obj) == Append(h, obj)

\* a normal return of the object allocated last
Return(h) == [ok |-> TRUE, heap |-> h, ref |-> Len(h), error |-> ""]

\* a return of an object that already existed
ReturnRef(h, r) == [ok |-> TRUE, heap |-> h, ref |-> r, error |-> ""]

\* `throw Error(msg)`: nothing is returned
Throw(h, msg) == [ok |-> FALSE, heap |-> h, ref |-> 0, error |-> msg]

Addrs(h, kind) == {a \in 1..Len(h) : h[a].kind = kind}

\* { ...obj, [key]: value } on a messages object
SpreadWith(entries, key, value) ==
  [k \in (DOMAIN entries) \cup {key} |-> IF k = key THEN value ELSE entries[k]]

----------------------------------------------------------------------------
(* messengerReducer.                                                       *)

initialState == [selectedId |-> 0, messages |-> [k \in {"0"} |-> ""]]

\* a bug: selecting a contact also starts an empty draft for it
ChangedSelectionCreatesDraft(h, st, action) ==
  LET h1 == Alloc(h, [kind |-> "map",
                      entries |-> SpreadWith(h[h[st].messages].entries,
                                             ToPropertyKey(action.contactId), "")])
  IN Return(Alloc(h1, [h1[st] EXCEPT !.selectedId = action.contactId,
                                     !.messages = Len(h1)]))

\* a bug: { ...initialState, selectedId: action.contactId }
ChangedSelectionFromInitial(h, st, action) ==
  LET h1 == Alloc(h, [kind |-> "map", entries |-> initialState.messages])
  IN Return(Alloc(h1, [kind |-> "state", selectedId |-> action.contactId,
                       messages |-> Len(h1)]))

\* a bug: { ...state, messages: { ...state.messages }, selectedId: action.contactId }
ChangedSelectionCopiesMessages(h, st, action) ==
  LET h1 == Alloc(h, [kind |-> "map", entries |-> h[h[st].messages].entries])
  IN Return(Alloc(h1, [h1[st] EXCEPT !.selectedId = action.contactId,
                                     !.messages = Len(h1)]))

\* case 'changed_selection': { ...state, selectedId: action.contactId }
ChangedSelection(h, st, action) ==
  Return(Alloc(h, [h[st] EXCEPT !.selectedId = action.contactId]))

\* a bug: the new messages object holds the edited entry alone
EditedMessageDropsOthers(h, st, action) ==
  LET h1 == Alloc(h, [kind |-> "map",
                      entries |-> SpreadWith(<<>>, ToPropertyKey(h[st].selectedId),
                                             action.message)])
  IN Return(Alloc(h1, [h1[st] EXCEPT !.messages = Len(h1)]))

\* a bug: the entry is written into the state's own messages object
EditedMessageInPlace(h, st, action) ==
  LET m == h[st].messages
  IN ReturnRef([h EXCEPT ![m].entries =
                  SpreadWith(h[m].entries, ToPropertyKey(h[st].selectedId),
                             action.message)], st)

\* case 'edited_message':
\*   { ...state, messages: { ...state.messages, [state.selectedId]: action.message } }
EditedMessage(h, st, action) ==
  LET h1 == Alloc(h, [kind |-> "map",
                      entries |-> SpreadWith(h[h[st].messages].entries,
                                             ToPropertyKey(h[st].selectedId),
                                             action.message)])
  IN Return(Alloc(h1, [h1[st] EXCEPT !.messages = Len(h1)]))

\* a bug: sending clears the draft only when there is one
SentMessageKeepsAbsent(h, st, action) ==
  LET key == ToPropertyKey(h[st].selectedId)
      old == h[h[st].messages].entries
      h1 == Alloc(h, [kind |-> "map",
                      entries |-> IF key \in DOMAIN old
                                  THEN SpreadWith(old, key, "") ELSE old])
  IN Return(Alloc(h1, [h1[st] EXCEPT !.messages = Len(h1)]))

\* case 'sent_message':
\*   { ...state, messages: { ...state.messages, [state.selectedId]: '' } }
SentMessage(h, st, action) ==
  LET h1 == Alloc(h, [kind |-> "map",
                      entries |-> SpreadWith(h[h[st].messages].entries,
                                             ToPropertyKey(h[st].selectedId), "")])
  IN Return(Alloc(h1, [h1[st] EXCEPT !.messages = Len(h1)]))

\* a bug: `default: return state`
UnknownActionIgnored(h, st, action) == ReturnRef(h, st)

\* default: throw Error('Unknown action: ' + action.type)
UnknownAction(h, st, action) == Throw(h, "Unknown action: " \o action.type)

messengerReducer(h, st, action) ==
  CASE action.type = "changed_selection" -> ChangedSelection(h, st, action)
    [] action.type = "edited_message" -> EditedMessage(h, st, action)
    [] action.type = "sent_message" -> SentMessage(h, st, action)
    [] OTHER -> UnknownAction(h, st, action)

----------------------------------------------------------------------------
(* tasksReducer.                                                           *)

HasTask(action) == "task" \in DOMAIN action

\* a bug: the reducer takes the id from the module counter
TaskAddedFromCounter(h, tasks, action) ==
  LET h1 == Alloc(h, [kind |-> "task", id |-> nextId, text |-> action.text,
                      done |-> FALSE])
  IN Return(Alloc(h1, [kind |-> "list", items |-> Append(h[tasks].items, Len(h1))]))

\* a bug: [{ id, text, done: false }, ...tasks]
TaskAddedPrepends(h, tasks, action) ==
  LET h1 == Alloc(h, [kind |-> "task", id |-> action.id, text |-> action.text,
                      done |-> FALSE])
  IN Return(Alloc(h1, [kind |-> "list", items |-> <<Len(h1)>> \o h[tasks].items]))

\* case 'added': [...tasks, { id: action.id, text: action.text, done: false }]
TaskAdded(h, tasks, action) ==
  LET h1 == Alloc(h, [kind |-> "task", id |-> action.id, text |-> action.text,
                      done |-> FALSE])
  IN Return(Alloc(h1, [kind |-> "list", items |-> Append(h[tasks].items, Len(h1))]))

\* a bug: a task that is not in the list is added to it
TaskChangedUpserts(h, tasks, action) ==
  LET items == h[tasks].items
      found == \E i \in 1..Len(items) : h[items[i]].id = h[action.task].id
  IN IF items # <<>> /\ ~HasTask(action) THEN Throw(h, "TypeError")
     ELSE Return(Alloc(h, [kind |-> "list",
            items |-> IF items # <<>> /\ ~found THEN Append(items, action.task)
                      ELSE [i \in 1..Len(items) |->
                              IF h[items[i]].id = h[action.task].id
                              THEN action.task ELSE items[i]]]))

\* case 'changed': tasks.map(task => task.id === action.task.id ? action.task : task)
\* The callback reads action.task.id once per element: with no action.task it
\* raises a TypeError at the first element, and is never run on an empty list.
TaskChanged(h, tasks, action) ==
  LET items == h[tasks].items
  IN IF items # <<>> /\ ~HasTask(action) THEN Throw(h, "TypeError")
     ELSE Return(Alloc(h, [kind |-> "list",
            items |-> [i \in 1..Len(items) |->
                         IF h[items[i]].id = h[action.task].id
                         THEN action.task ELSE items[i]]]))

\* case 'deleted': tasks.filter(task => task.id !== action.task.id)
TaskDeleted(h, tasks, action) ==
  LET items == h[tasks].items
  IN IF items # <<>> /\ ~HasTask(action) THEN Throw(h, "TypeError")
     ELSE Return(Alloc(h, [kind |-> "list",
            items |-> SelectSeq(items, LAMBDA t : h[t].id # h[action.task].id)]))

\* default: throw Error(`Unknown action: ${action.type}`)
TaskUnknownAction(h, tasks, action) == Throw(h, "Unknown action: " \o action.type)

tasksReducer(h, tasks, action) ==
  CASE action.type = "added" -> TaskAdded(h, tasks, action)
    [] action.type = "changed" -> TaskChanged(h, tasks, action)
    [] action.type = "deleted" -> TaskDeleted(h, tasks, action)
    [] OTHER -> TaskUnknownAction(h, tasks, action)

----------------------------------------------------------------------------
(* Structural values: what an object is, wherever it lives.                *)

StateValue(h, r) ==
  [selectedId |-> h[r].selectedId, messages |-> h[h[r].messages].entries]

TaskValue(h, r) == [id |-> h[r].id, text |-> h[r].text, done |-> h[r].done]

ListValue(h, r) == [i \in 1..Len(h[r].items) |-> TaskValue(h, h[r].items[i])]

Value(h, r) == IF h[r].kind = "state" THEN StateValue(h, r) ELSE ListValue(h, r)

ActionValue(h, action) ==
  IF HasTask(action) THEN [action EXCEPT !.task = TaskValue(h, action.task)]
  ELSE action

----------------------------------------------------------------------------
(* The reducer harness: the reducers called as pure functions, on states   *)
(* drawn from bounded sets and on the states earlier calls returned.       *)

\* the task records the harness starts from, and those actions carry
InitTasks ==
  {[id |-> 0, text |-> "a", done |-> TRUE], [id |-> 1, text |-> "a", done |-> FALSE]}
PayloadTasks == [id : TaskIds, text : {"b"}, done : BOOLEAN]

InitLists == UNION {[1..n -> InitTasks] : n \in 0..MaxLen}

MessengerHeap(sel, msgs) ==
  <<[kind |-> "map", entries |-> msgs],
    [kind |-> "state", selectedId |-> sel, messages |-> 1]>>

TasksHeap(list) ==
  [i \in 1..Len(list) |->
     [kind |-> "task", id |-> list[i].id, text |-> list[i].text,
      done |-> list[i].done]]
  \o <<[kind |-> "list", items |-> [i \in 1..Len(list) |-> i]]>>

\* the actions ContactList and Chat build
MessengerActions ==
  {[type |-> "changed_selection", contactId |-> c] : c \in ContactIds}
  \cup {[type |-> "edited_message", message |-> m] : m \in Msgs}
  \cup {[type |-> "sent_message"]}

\* actions of a type messengerReducer has no case for
MessengerUnknown == {[type |-> "bogus"], [type |-> "deleted", id |-> 0]}

\* task actions that carry no task object: 'added' as AddTask builds it (with
\* an id the caller chose), 'deleted' as Task's Delete button builds it,
\* 'changed' with its payload left out
TaskPlainActions ==
  {[type |-> "added", id |-> i, text |-> "b"] : i \in {1, NextIdInit}}
  \cup {[type |-> "deleted", id |-> i] : i \in TaskIds}
  \cup {[type |-> "changed"]}

\* actions of a type tasksReducer has no case for
TaskUnknown == {[type |-> "bogus"], [type |-> "sent_message"]}

CallRecord(fn, input, action, pre, res) ==
  [fn |-> fn, input |-> input, action |-> action, pre |-> pre,
   post |-> res.heap, ok |-> res.ok, ref |-> res.ref, error |-> res.error,
   counter |-> nextId]

\* neither game component is mounted
InitNoGame ==
  /\ chain = <<>>
  /\ game = <<>>
  /\ placed = <<>>

\* no component with an effect is mounted
InitNoEffect ==
  /\ comp = "none"
  /\ hooks = <<>>
  /\ effects = <<>>
  /\ todo = <<>>

InitHook ==
  /\ state = initialState
  /\ queue = <<>>
  /\ status = "mounted"
  /\ history = <<>>
  /\ last = [op |-> "mount"]
  /\ text = ""

InitReducers ==
  /\ heap \in {MessengerHeap(sel, msgs) : sel \in ContactIds, msgs \in MessageMaps}
              \cup {TasksHeap(list) : list \in InitLists}
  /\ calls = <<>>
  /\ nextId = NextIdInit
  /\ InitHook
  /\ InitNoEffect
  /\ InitNoGame

\* messengerReducer(state, action)
CallMessengerReducer ==
  /\ Len(calls) < MaxCalls
  /\ \E st \in Addrs(heap, "state"), action \in MessengerActions \cup MessengerUnknown :
       LET res == messengerReducer(heap, st, action)
       IN /\ heap' = res.heap
          /\ nextId' = nextId
          /\ calls' = Append(calls, CallRecord("messengerReducer", st, action, heap, res))
  /\ UNCHANGED <<hookVars, formVars>>

\* tasksReducer(tasks, action), the action carrying no task object
CallTasksReducer ==
  /\ Len(calls) < MaxCalls
  /\ \E tasks \in Addrs(heap, "list"), action \in TaskPlainActions \cup TaskUnknown :
       LET res == tasksReducer(heap, tasks, action)
       IN /\ heap' = res.heap
          /\ nextId' = nextId
          /\ calls' = Append(calls, CallRecord("tasksReducer", tasks, action, heap, res))
  /\ UNCHANGED <<hookVars, formVars>>

\* tasksReducer(tasks, {type, task: {...}}): the caller builds the task object
CallTasksReducerWithTask ==
  /\ Len(calls) < MaxCalls
  /\ \E tasks \in Addrs(heap, "list"), type \in {"changed", "deleted"}, t \in PayloadTasks :
       LET h1 == Alloc(heap, [kind |-> "task", id |-> t.id, text |-> t.text,
                              done |-> t.done])
           action == [type |-> type, task |-> Len(h1)]
           res == tasksReducer(h1, tasks, action)
       IN /\ heap' = res.heap
          /\ nextId' = nextId
          /\ calls' = Append(calls, CallRecord("tasksReducer", tasks, action, h1, res))
  /\ UNCHANGED <<hookVars, formVars>>

\* AddTask.handleAdd: {type: 'added', id: nextId++, text}, then the reducer
HandleAddCall ==
  /\ Len(calls) < MaxCalls
  /\ \E tasks \in Addrs(heap, "list") :
       LET action == [type |-> "added", id |-> nextId, text |-> "b"]
           res == tasksReducer(heap, tasks, action)
       IN /\ nextId' = nextId + 1
          /\ heap' = res.heap
          /\ calls' = Append(calls, CallRecord("tasksReducer", tasks, action, heap, res))
  /\ UNCHANGED <<hookVars, formVars>>

NextReducers ==
  \/ CallMessengerReducer
  \/ CallTasksReducer
  \/ CallTasksReducerWithTask
  \/ HandleAddCall

SpecReducers == InitReducers /\ [][NextReducers]_vars

----------------------------------------------------------------------------
(* useMyReducer(messengerReducer, initialState).                           *)
(*                                                                         *)
(*   const [state, setState] = useState(initialState);                     *)
(*   const dispatch = (action) => setState(prev => reducer(prev, action)); *)
(*                                                                         *)
(* useState keeps the committed state and a queue of updates.  setState    *)
(* with a function queues the function and returns; React calls the queued *)
(* functions in order, each on the result of the one before, when it next  *)
(* renders the component.  (React may run an updater early, but keeps its  *)
(* result pending and holds back an error it raises until the render.)  An *)
(* updater that throws makes the render throw: nothing is committed and    *)
(* the component is unmounted.                                             *)

\* reducer(prev, action) on state values: the call is made on a heap that holds
\* prev, and the state it returns is read back
reducer(prev, action) ==
  LET res == messengerReducer(MessengerHeap(prev.selectedId, prev.messages), 2, action)
  IN IF res.ok
     THEN [ok |-> TRUE, value |-> StateValue(res.heap, res.ref), error |-> ""]
     ELSE [ok |-> FALSE, value |-> prev, error |-> res.error]

\* setState(update): the update is queued for the next render and the call
\* returns; `update` is an updater function (of an action) or a plain value
setState(s, q, update) ==
  [state |-> s, queue |-> Append(q, update), threw |-> FALSE, error |-> ""]

\* a bug: setState(reducer(state, action)), on the state of the last render
dispatchStale(s, q, action) ==
  LET r == reducer(s, action)
  IN IF r.ok THEN setState(s, q, [updater |-> FALSE, value |-> r.value])
     ELSE [state |-> s, queue |-> q, threw |-> TRUE, error |-> r.error]

\* not the code: a dispatch that runs the reducer and replaces the state
\* before it returns
dispatchSync(s, q, action) ==
  LET r == reducer(s, action)
  IN IF r.ok THEN [state |-> r.value, queue |-> q, threw |-> FALSE, error |-> ""]
     ELSE [state |-> s, queue |-> q, threw |-> TRUE, error |-> r.error]

\* dispatch = (action) => setState(prev => reducer(prev, action))
dispatch(s, q, action) == setState(s, q, [updater |-> TRUE, action |-> action])

ApplyUpdate(prev, update) ==
  IF update.updater THEN reducer(prev, update.action)
  ELSE [ok |-> TRUE, value |-> update.value, error |-> ""]

\* the queue run in order; on a throw, `value` is the state the throwing
\* updater was given
RECURSIVE ProcessQueue(_, _)
ProcessQueue(prev, q) ==
  IF q = <<>> THEN [ok |-> TRUE, value |-> prev, error |-> ""]
  ELSE LET r == ApplyUpdate(prev, Head(q))
       IN IF r.ok THEN ProcessQueue(r.value, Tail(q)) ELSE r

\* a bug: the updates run before the throwing one are committed
RenderResultPartial(s, q) ==
  LET r == ProcessQueue(s, q)
  IN [state |-> r.value, status |-> IF r.ok THEN "mounted" ELSE "crashed",
      error |-> r.error]

\* the render: the queue is run on the committed state; its result is
\* committed, unless an updater throws
RenderResult(s, q) ==
  LET r == ProcessQueue(s, q)
  IN IF r.ok THEN [state |-> r.value, status |-> "mounted", error |-> ""]
     ELSE [state |-> s, status |-> "crashed", error |-> r.error]

\* the actions a caller of dispatch passes: those of the messenger, and one of
\* a type the reducer does not know
DispatchedActions == MessengerActions \cup {[type |-> "bogus"]}

Init ==
  /\ InitHook
  /\ InitNoEffect
  /\ InitNoGame
  /\ heap = MessengerHeap(initialState.selectedId, initialState.messages)
  /\ calls = <<>>
  /\ nextId = NextIdInit

\* a call dispatch(action), from an event handler
Dispatch ==
  /\ status = "mounted"
  /\ Len(history) < MaxDispatch
  /\ \E action \in DispatchedActions :
       LET r == dispatch(state, queue, action)
       IN /\ state' = r.state
          /\ queue' = r.queue
          /\ history' = Append(history, action)
          /\ last' = [op |-> "dispatch", action |-> action, before |-> state,
                      pending |-> queue, threw |-> r.threw, error |-> r.error]
  /\ UNCHANGED <<status, harnessVars, formVars>>

\* React renders the component: useState runs the queued updates
Render ==
  /\ status = "mounted"
  /\ queue # <<>>
  /\ LET r == RenderResult(state, queue)
     IN /\ state' = r.state
        /\ status' = r.status
        /\ last' = [op |-> "render", before |-> state, pending |-> queue,
                    threw |-> (r.status = "crashed"), error |-> r.error]
  /\ queue' = <<>>
  /\ UNCHANGED <<history, harnessVars, formVars>>

Next == Dispatch \/ Render

Spec == Init /\ [][Next]_vars

----------------------------------------------------------------------------
(* Properties of the reducers as pure functions (SpecReducers).            *)

In(c) == Value(c.pre, c.input)

Out(c) ==
  IF c.ok THEN [ok |-> TRUE, value |-> Value(c.post, c.ref)]
  ELSE [ok |-> FALSE, error |-> c.error]

KnownType(c) ==
  \/ c.fn = "messengerReducer" /\ c.action.type \in MessengerTypes
  \/ c.fn = "tasksReducer" /\ c.action.type \in TaskTypes

\* C1: a call of messengerReducer or tasksReducer with an action whose type is
\* not one of the reducer's own cases raises 'Unknown action: <type>' and
\* returns no state.
C1_UnknownTypeRaises ==
  \A i \in DOMAIN calls :
    ~KnownType(calls[i]) =>
      /\ ~calls[i].ok
      /\ calls[i].error = "Unknown action: " \o calls[i].action.type

\* an edit, then a task-list action type given to messengerReducer
C1_Witness ==
  /\ Len(calls) = 2
  /\ calls[1].action.type = "edited_message" /\ calls[1].ok
  /\ calls[2].fn = "messengerReducer" /\ calls[2].action.type = "deleted"
  /\ calls[2].input = calls[1].ref
  /\ ~calls[2].ok

\* C4: 'changed_selection' returns a state whose selectedId is the action's
\* contactId and whose messages map has the entries of the input's, no more
\* and no fewer.
C4_ChangedSelection ==
  \A i \in DOMAIN calls :
    LET c == calls[i]
    IN (c.fn = "messengerReducer" /\ c.action.type = "changed_selection") =>
         /\ c.ok
         /\ Out(c).value.selectedId = c.action.contactId
         /\ Out(c).value.messages = In(c).messages

\* another contact is selected, one with no draft, while a draft exists
C4_Witness ==
  \E i \in DOMAIN calls :
    LET c == calls[i]
    IN /\ c.fn = "messengerReducer" /\ c.action.type = "changed_selection"
       /\ c.action.contactId # In(c).selectedId
       /\ ToPropertyKey(c.action.contactId) \notin DOMAIN In(c).messages
       /\ \E k \in DOMAIN In(c).messages : In(c).messages[k] = "hi"
       /\ c.ok

\* C5: 'edited_message' keeps selectedId and returns the input's messages map
\* with the entry of the selected contact set to the action's message (the
\* entry is created when absent); the initial state edited with 'hi' gives
\* {selectedId: 0, messages: {0: 'hi'}}.
C5_EditedMessage ==
  \A i \in DOMAIN calls :
    LET c == calls[i]
        key == ToPropertyKey(In(c).selectedId)
    IN (c.fn = "messengerReducer" /\ c.action.type = "edited_message") =>
         /\ c.ok
         /\ Out(c).value.selectedId = In(c).selectedId
         /\ DOMAIN Out(c).value.messages = (DOMAIN In(c).messages) \cup {key}
         /\ Out(c).value.messages[key] = c.action.message
         /\ \A k \in (DOMAIN In(c).messages) \ {key} :
              Out(c).value.messages[k] = In(c).messages[k]
         /\ (In(c) = initialState /\ c.action.message = "hi") =>
              Out(c).value = [selectedId |-> 0, messages |-> [k \in {"0"} |-> "hi"]]

\* an edit for a contact with no entry yet, beside another contact's draft
C5_Witness ==
  \E i \in DOMAIN calls :
    LET c == calls[i]
    IN /\ c.fn = "messengerReducer" /\ c.action.type = "edited_message"
       /\ ToPropertyKey(In(c).selectedId) \notin DOMAIN In(c).messages
       /\ DOMAIN In(c).messages # {}
       /\ c.action.message = "hi"
       /\ c.ok

\* C6: 'sent_message' keeps selectedId and returns the input's messages map
\* with the entry of the selected contact set to '' whatever it was, absent
\* included, every other entry as it was.
C6_SentMessage ==
  \A i \in DOMAIN calls :
    LET c == calls[i]
        key == ToPropertyKey(In(c).selectedId)
    IN (c.fn = "messengerReducer" /\ c.action.type = "sent_message") =>
         /\ c.ok
         /\ Out(c).value.selectedId = In(c).selectedId
         /\ DOMAIN Out(c).value.messages = (DOMAIN In(c).messages) \cup {key}
         /\ Out(c).value.messages[key] = ""
         /\ \A k \in (DOMAIN In(c).messages) \ {key} :
              Out(c).value.messages[k] = In(c).messages[k]

\* a send for contact 1, which has no entry, while contact 0 holds 'hi'
C6_Witness ==
  \E i \in DOMAIN calls :
    LET c == calls[i]
    IN /\ c.fn = "messengerReducer" /\ c.action.type = "sent_message"
       /\ In(c) = [selectedId |-> 1, messages |-> [k \in {"0"} |-> "hi"]]
       /\ c.ok
       /\ Out(c).value.messages["1"] = ""

\* C8: a reducer call, returning or raising, leaves every object that existed
\* before it as it was: the input state and its messages map, the input list
\* and each task record.
C8_InputNotMutated ==
  \A i \in DOMAIN calls :
    LET c == calls[i]
    IN /\ Len(c.post) >= Len(c.pre)
       /\ \A a \in 1..Len(c.pre) : c.post[a] = c.pre[a]
       /\ Value(c.post, c.input) = In(c)

\* a 'changed' that replaced a task, then a call that raised
C8_Witness ==
  /\ Len(calls) = 2
  /\ calls[1].action.type = "changed" /\ calls[1].ok
  /\ Out(calls[1]).value # In(calls[1])
  /\ ~calls[2].ok
  /\ calls[2].input = calls[1].input

\* C9: two calls of the same reducer on structurally equal states with
\* structurally equal actions give structurally equal results: equal next
\* states, or the same error; neither the addresses of the objects nor the
\* module counter at the time of the call makes a difference.
C9_Deterministic ==
  \A i, j \in DOMAIN calls :
    LET c == calls[i]
        d == calls[j]
    IN (/\ c.fn = d.fn
        /\ In(c) = In(d)
        /\ ActionValue(c.pre, c.action) = ActionValue(d.pre, d.action))
       => Out(c) = Out(d)

\* the same 'added' on the same list, with the counter at 4 and then at 5
C9_Witness ==
  /\ Len(calls) = 2
  /\ calls[1].action = calls[2].action
  /\ calls[1].action.type = "added"
  /\ In(calls[1]) = In(calls[2])
  /\ calls[1].counter # calls[2].counter
  /\ calls[1].pre # calls[2].pre
  /\ calls[1].ok /\ calls[2].ok

\* C11: 'added' returns the input list with one record {id, text, done: false}
\* appended at the end: one task longer, every task of the input at its
\* position with its fields.
C11_Added ==
  \A i \in DOMAIN calls :
    LET c == calls[i]
    IN (c.fn = "tasksReducer" /\ c.action.type = "added") =>
         /\ c.ok
         /\ Len(Out(c).value) = Len(In(c)) + 1
         /\ Out(c).value[Len(In(c)) + 1] =
              [id |-> c.action.id, text |-> c.action.text, done |-> FALSE]
         /\ \A n \in 1..Len(In(c)) : Out(c).value[n] = In(c)[n]

\* an 'added' on a list of two tasks, as AddTask.handleAdd dispatches it
C11_Witness ==
  \E i \in DOMAIN calls :
    LET c == calls[i]
    IN /\ c.fn = "tasksReducer" /\ c.action.type = "added"
       /\ c.action.id = c.counter
       /\ Len(In(c)) = 2
       /\ In(c)[1] # In(c)[2]
       /\ c.ok

\* C12: 'changed' with a task returns a list of the same length in which every
\* task with the id of action.task is action.task and every other task is as
\* it was, at the same position; with no task of that id the result equals the
\* input list, and nothing is raised.
C12_Changed ==
  \A i \in DOMAIN calls :
    LET c == calls[i]
        t == TaskValue(c.pre, c.action.task)
    IN (c.fn = "tasksReducer" /\ c.action.type = "changed" /\ HasTask(c.action)) =>
         /\ c.ok
         /\ Len(Out(c).value) = Len(In(c))
         /\ \A n \in 1..Len(In(c)) :
              Out(c).value[n] = IF In(c)[n].id = t.id THEN t ELSE In(c)[n]
         /\ (\A n \in 1..Len(In(c)) : In(c)[n].id # t.id) => Out(c).value = In(c)

\* a 'changed' that replaced both tasks of a list, which have the same id,
\* then one on the same list for an id that is not in it
C12_Witness ==
  /\ Len(calls) = 2
  /\ calls[1].action.type = "changed" /\ HasTask(calls[1].action)
  /\ Len(In(calls[1])) = 2
  /\ Out(calls[1]).value[1] # In(calls[1])[1]
  /\ Out(calls[1]).value[2] # In(calls[1])[2]
  /\ calls[2].input = calls[1].input
  /\ calls[2].action.type = "changed" /\ HasTask(calls[2].action)
  /\ In(calls[2]) # <<>>
  /\ \A n \in 1..Len(In(calls[2])) :
       In(calls[2])[n].id # TaskValue(calls[2].pre, calls[2].action.task).id
  /\ calls[2].ok

\* the addresses of the items of a list
Items(h, r) == h[r].items

\* C13: the state 'changed_selection' returns holds the very messages object of
\* the input; the list 'added' returns begins with the very task objects of the
\* input, the list 'changed' returns holds the very object of every task it did
\* not replace, and the list 'deleted' returns holds the very objects of the
\* tasks it kept.
C13_StructuralSharing ==
  \A i \in DOMAIN calls :
    LET c == calls[i]
    IN c.ok =>
       /\ (c.fn = "messengerReducer" /\ c.action.type = "changed_selection") =>
             /\ c.post[c.ref].messages = c.pre[c.input].messages
             /\ c.ref # c.input
       /\ (c.fn = "tasksReducer" /\ c.action.type = "added") =>
             SubSeq(Items(c.post, c.ref), 1, Len(Items(c.pre, c.input)))
               = Items(c.pre, c.input)
       /\ (c.fn = "tasksReducer" /\ c.action.type = "changed" /\ HasTask(c.action)) =>
             \A n \in 1..Len(Items(c.pre, c.input)) :
               c.pre[Items(c.pre, c.input)[n]].id # c.pre[c.action.task].id
                 => Items(c.post, c.ref)[n] = Items(c.pre, c.input)[n]
       /\ (c.fn = "tasksReducer" /\ c.action.type = "deleted" /\ HasTask(c.action)) =>
             Items(c.post, c.ref) =
               SelectSeq(Items(c.pre, c.input),
                         LAMBDA a : c.pre[a].id # c.pre[c.action.task].id)

\* a selection made on a state that holds a draft, then an edit of the new state
C13_Witness ==
  /\ Len(calls) = 2
  /\ calls[1].action.type = "changed_selection" /\ calls[1].ok
  /\ calls[1].pre[calls[1].pre[calls[1].input].messages].entries # <<>>
  /\ calls[2].input = calls[1].ref
  /\ calls[2].action.type = "edited_message" /\ calls[2].ok

----------------------------------------------------------------------------
(* Properties of the useMyReducer container (Spec).                        *)

\* the action list replayed through independent reducer calls
RECURSIVE Replay(_, _)
Replay(s, actions) ==
  IF actions = <<>> THEN [ok |-> TRUE, value |-> s, error |-> ""]
  ELSE LET r == reducer(s, Head(actions))
       IN IF r.ok THEN Replay(r.value, Tail(actions)) ELSE r

\* the actions of the updates that were pending when the last step began: the
\* last dispatched ones
PendingActions(n) == SubSeq(history, Len(history) - n + 1, Len(history))

HasUnknown(actions) ==
  \E i \in DOMAIN actions : actions[i].type \notin MessengerTypes

\* C2, as claimed: a dispatch of an action of unrecognized type raises out of
\* the dispatch call, and the stored state is as before the call.
C2_Original ==
  (last.op = "dispatch" /\ last.action.type \notin MessengerTypes) =>
     /\ last.threw
     /\ state = last.before

\* C2, amended: a dispatch of an action of unrecognized type returns normally,
\* the action only queued and the stored state as before the call; the
\* reducer's error is raised by the next render, which commits nothing: the
\* stored state is still the one before that render, also when recognized
\* actions were queued ahead of the rejected one.
C2_ErrorAtRender ==
  /\ (last.op = "dispatch" /\ last.action.type \notin MessengerTypes) =>
        /\ ~last.threw
        /\ state = last.before
        /\ Len(queue) = Len(last.pending) + 1
        /\ status = "mounted"
  /\ (last.op = "render" /\ HasUnknown(PendingActions(Len(last.pending)))) =>
        /\ last.threw
        /\ last.error = "Unknown action: bogus"
        /\ status = "crashed"
        /\ state = last.before
  /\ (last.op = "render" /\ ~HasUnknown(PendingActions(Len(last.pending)))) =>
        /\ ~last.threw
        /\ status = "mounted"

\* an edit and then a bogus action were queued, and the render threw
C2_Witness ==
  /\ history = <<[type |-> "edited_message", message |-> "hi"], [type |-> "bogus"]>>
  /\ last.op = "render"
  /\ Len(last.pending) = 2
  /\ status = "crashed"
  /\ state = initialState

\* C3: the actions dispatched so far, applied to the initial state one after
\* the other by independent reducer calls, give what the stored state becomes
\* once the pending updates have run; with nothing pending, the stored state is
\* that result, and the container has crashed only if the replay raises.
C3_AppliedInOrder ==
  LET expected == Replay(initialState, history)
      pending == ProcessQueue(state, queue)
  IN /\ status = "mounted" =>
          /\ pending.ok = expected.ok
          /\ pending.ok => pending.value = expected.value
          /\ queue = <<>> => (expected.ok /\ state = expected.value)
     /\ status = "crashed" => ~expected.ok

\* three dispatches before one render, in an order that matters
C3_Witness ==
  /\ history = <<[type |-> "edited_message", message |-> "hi"],
                 [type |-> "changed_selection", contactId |-> 1],
                 [type |-> "sent_message"]>>
  /\ last.op = "render"
  /\ Len(last.pending) = 3
  /\ state = [selectedId |-> 1, messages |-> [k \in {"0", "1"} |->
                                                IF k = "0" THEN "hi" ELSE ""]]

\* the draft of key k in a state: <<text>>, or <<>> when there is no entry
Draft(s, k) == IF k \in DOMAIN s.messages THEN <<s.messages[k]>> ELSE <<>>

\* the state after the first i actions dispatched
StateAt(i) == Replay(initialState, SubSeq(history, 1, i))

\* C7: along the actions dispatched, the draft of a contact differs after an
\* action from before it only if the action is an edited_message or a
\* sent_message and the contact was the selected one; over a run of
\* changed_selection actions the messages map does not change at all; and after
\* the edit 'hi' and the selection of contact 1 the state is
\* {selectedId: 1, messages: {0: 'hi'}}.
C7_DraftFrame ==
  /\ \A i \in 1..Len(history) :
       StateAt(i).ok =>
         \A c \in ContactIds :
           Draft(StateAt(i).value, ToPropertyKey(c))
             # Draft(StateAt(i - 1).value, ToPropertyKey(c))
           => /\ history[i].type \in {"edited_message", "sent_message"}
              /\ StateAt(i - 1).value.selectedId = c
  /\ \A i \in 0..Len(history) : \A j \in i..Len(history) :
       (/\ StateAt(j).ok
        /\ \A n \in (i + 1)..j : history[n].type = "changed_selection")
       => StateAt(j).value.messages = StateAt(i).value.messages
  /\ (/\ Len(history) >= 2
      /\ history[1] = [type |-> "edited_message", message |-> "hi"]
      /\ history[2] = [type |-> "changed_selection", contactId |-> 1])
     => StateAt(2).value = [selectedId |-> 1, messages |-> [k \in {"0"} |-> "hi"]]
  /\ (status = "mounted" /\ queue = <<>>) => state = StateAt(Len(history)).value

\* contact 0 holds 'hi'; contact 1, with no entry, was selected, then contact 0 again
C7_Witness ==
  /\ history = <<[type |-> "edited_message", message |-> "hi"],
                 [type |-> "changed_selection", contactId |-> 1],
                 [type |-> "changed_selection", contactId |-> 0]>>
  /\ queue = <<>>
  /\ state = [selectedId |-> 0, messages |-> [k \in {"0"} |-> "hi"]]

\* C10, as claimed: when dispatch returns, the stored state is the reducer's
\* result on the state before the call.
C10_Original ==
  (last.op = "dispatch" /\ reducer(last.before, last.action).ok) =>
     state = reducer(last.before, last.action).value

\* C10, amended: dispatch only queues. When it returns, the stored state is
\* the one before the call and the action is pending behind those queued
\* earlier; the next render runs the reducer on the pending actions in order,
\* from the stored state, and replaces the stored state by the result.
C10_DeferredToRender ==
  /\ last.op = "dispatch" =>
        /\ ~last.threw
        /\ state = last.before
        /\ Len(queue) = Len(last.pending) + 1
        /\ PendingActions(Len(queue))[Len(queue)] = last.action
  /\ (last.op = "render" /\ ~last.threw) =>
        /\ queue = <<>>
        /\ state = Replay(last.before, PendingActions(Len(last.pending))).value

\* a dispatch has returned with an earlier one still pending, the state untouched
C10_Witness ==
  /\ last.op = "dispatch"
  /\ last.action = [type |-> "edited_message", message |-> "hi"]
  /\ Len(queue) = 2
  /\ state = initialState
  /\ reducer(state, last.action).value # state


----------------------------------------------------------------------------
(* TaskApp (SpecTasks): TasksProvider holds the list in                    *)
(* useReducer(tasksReducer, initialTasks); AddTask and Task dispatch to    *)
(* it from event handlers.  A click or a change is a discrete event: React *)
(* renders the update it queued before the next event is handled.  React   *)
(* calls the reducer on the queued action when it renders, and a reducer   *)
(* that throws makes the render throw: with no error boundary above, the   *)
(* whole tree is unmounted.  Here `state` is the list the hook has         *)
(* committed and `queue` the actions dispatched since.  Task's isEditing   *)
(* state only decides whether the text input is shown and is left out: an  *)
(* edit stands for a click on Edit and a change of the input.              *)

MaxAdds == 2

\* what the user types: into the "Add task" input, and into a task's input
AddTexts == {"", "tea"}
EditTexts == {"tea"}

initialTasks ==
  <<[id |-> 0, text |-> "Philosopher's Path", done |-> TRUE],
    [id |-> 1, text |-> "Visit the temple", done |-> FALSE],
    [id |-> 2, text |-> "Drink matcha", done |-> FALSE]>>

\* tasksReducer(tasks, action) on values: the call is made on a heap that
\* holds the list and the task the action carries, and the list it returns
\* is read back
tasksOnValues(list, action) ==
  LET h0 == TasksHeap(list)
      h == IF HasTask(action)
           THEN Append(h0, [kind |-> "task", id |-> action.task.id,
                            text |-> action.task.text, done |-> action.task.done])
           ELSE h0
      a == IF HasTask(action) THEN [action EXCEPT !.task = Len(h)] ELSE action
      res == tasksReducer(h, Len(h0), a)
  IN IF res.ok
     THEN [ok |-> TRUE, value |-> ListValue(res.heap, res.ref), error |-> ""]
     ELSE [ok |-> FALSE, value |-> list, error |-> res.error]

\* the queued actions reduced in order, as useReducer does when it renders
RECURSIVE RunTasksQueue(_, _)
RunTasksQueue(list, q) ==
  IF q = <<>> THEN [ok |-> TRUE, value |-> list, error |-> ""]
  ELSE LET r == tasksOnValues(list, Head(q))
       IN IF r.ok THEN RunTasksQueue(r.value, Tail(q))
          ELSE [ok |-> FALSE, value |-> list, error |-> r.error]

\* a bug: the counter is read and never advanced
NextCounterStuck(n) == n

\* nextId++ : the value the counter holds after handleAdd has read it
NextCounter(n) == n + 1

\* { type: 'added', id: nextId++, text: text }
AddAction(id, t) == [type |-> "added", id |-> id, text |-> t]

\* { type: 'changed', task: { ...task, text: e.target.value } }
TextAction(task, t) == [type |-> "changed", task |-> [task EXCEPT !.text = t]]

\* { type: 'changed', task: { ...task, done: e.target.checked } }
DoneAction(task, checked) ==
  [type |-> "changed", task |-> [task EXCEPT !.done = checked]]

\* { type: 'deleted', id: task.id }
DeleteAction(task) == [type |-> "deleted", id |-> task.id]

InitTaskApp ==
  /\ state = initialTasks
  /\ queue = <<>>
  /\ status = "mounted"
  /\ history = <<>>
  /\ last = [op |-> "mount"]
  /\ text = ""
  /\ nextId = NextIdInit
  /\ heap = <<>>
  /\ calls = <<>>
  /\ InitNoEffect
  /\ InitNoGame

\* an event is handled once the update of the one before it is rendered
TaskAppIdle == status = "mounted" /\ queue = <<>>

\* AddTask: onChange={e => setText(e.target.value)}
SetText ==
  /\ TaskAppIdle
  /\ \E t \in AddTexts : t # text /\ text' = t
  /\ last' = [op |-> "setText"]
  /\ UNCHANGED <<state, queue, status, history, harnessVars, effectVars, gameVars>>

\* AddTask: handleAdd
HandleAdd ==
  /\ TaskAppIdle
  /\ nextId < NextIdInit + MaxAdds
  /\ queue' = Append(queue, AddAction(nextId, text))
  /\ nextId' = NextCounter(nextId)
  /\ last' = [op |-> "dispatch", action |-> AddAction(nextId, text)]
  /\ UNCHANGED <<state, status, history, heap, calls, formVars>>

\* Task: onChange of the text input
HandleTextChange ==
  /\ TaskAppIdle
  /\ \E i \in 1..Len(state), t \in EditTexts :
       /\ state[i].text # t
       /\ queue' = Append(queue, TextAction(state[i], t))
       /\ last' = [op |-> "dispatch", action |-> TextAction(state[i], t)]
  /\ UNCHANGED <<state, status, history, harnessVars, formVars>>

\* Task: onChange of the checkbox
HandleDoneChange ==
  /\ TaskAppIdle
  /\ \E i \in 1..Len(state) :
       /\ queue' = Append(queue, DoneAction(state[i], ~state[i].done))
       /\ last' = [op |-> "dispatch",
                   action |-> DoneAction(state[i], ~state[i].done)]
  /\ UNCHANGED <<state, status, history, harnessVars, formVars>>

\* Task: onClick of the Delete button
HandleDelete ==
  /\ TaskAppIdle
  /\ \E i \in 1..Len(state) :
       /\ queue' = Append(queue, DeleteAction(state[i]))
       /\ last' = [op |-> "dispatch", action |-> DeleteAction(state[i])]
  /\ UNCHANGED <<state, status, history, harnessVars, formVars>>

\* React renders TasksProvider: useReducer reduces the queued actions
TaskAppRender ==
  /\ status = "mounted"
  /\ queue # <<>>
  /\ LET r == RunTasksQueue(state, queue)
     IN /\ state' = r.value
        /\ status' = IF r.ok THEN "mounted" ELSE "crashed"
        /\ last' = [op |-> "render", action |-> Head(queue), before |-> state,
                    threw |-> ~r.ok, error |-> r.error]
  /\ queue' = <<>>
  /\ UNCHANGED <<history, harnessVars, formVars>>

NextTasks ==
  \/ SetText
  \/ HandleAdd
  \/ HandleTextChange
  \/ HandleDoneChange
  \/ HandleDelete
  \/ TaskAppRender

SpecTasks == InitTaskApp /\ [][NextTasks]_vars

\* the ids of a list, in order
Ids(list) == [i \in 1..Len(list) |-> list[i].id]

\* C14: whenever a render has reduced the action of a Delete click, the
\* reducer has not raised, and the list is the list before it without the
\* tasks of that id, the others in their order
C14_DeleteRemoves ==
  (last.op = "render" /\ last.action.type = "deleted") =>
    /\ ~last.threw
    /\ status = "mounted"
    /\ state = SelectSeq(last.before, LAMBDA t : t.id # last.action.id)

\* C15: the tasks of TaskApp have pairwise distinct ids; each is the id of an
\* initial task or one the counter has handed out, from 4 on, and the counter
\* is past every id in use; a 'changed' action leaves the ids as they were
C15_DistinctIds ==
  /\ \A i, j \in 1..Len(state) : i # j => state[i].id # state[j].id
  /\ \A i \in 1..Len(state) :
       \/ \E k \in 1..Len(initialTasks) : state[i].id = initialTasks[k].id
       \/ state[i].id >= NextIdInit /\ state[i].id < nextId
  /\ \A k \in 1..Len(initialTasks) : initialTasks[k].id < NextIdInit
  /\ \A n \in 1..Len(queue) :
       queue[n].type = "added" =>
         /\ queue[n].id >= NextIdInit /\ queue[n].id < nextId
         /\ \A i \in 1..Len(state) : state[i].id # queue[n].id
  /\ (last.op = "render" /\ last.action.type = "changed") =>
       /\ ~last.threw
       /\ Ids(state) = Ids(last.before)

\* two tasks added, then one of them edited
C15_Witness ==
  /\ Ids(state) = <<0, 1, 2, 4, 5>>
  /\ last.op = "render" /\ last.action.type = "changed"
  /\ last.action.task.id = 5
  /\ state # last.before


----------------------------------------------------------------------------
(* The messenger (SpecMessenger): DISPATCH_ACTIONS_FROM_EVENT_HANDLERS     *)
(* holds its state in useReducer(messengerReducer, initialState) and hands *)
(* dispatch to ContactList and Chat.  As in TaskApp, every click or change *)
(* is rendered before the next one is handled; `state` is the committed    *)
(* state and `queue` the actions dispatched since, each queued as the      *)
(* update prev => messengerReducer(prev, action).                          *)

\* contacts.find((c) => c.id === state.selectedId), by id
FindContact(sel) == IF sel \in ContactIds THEN [found |-> TRUE, id |-> sel]
                    ELSE [found |-> FALSE]

\* state.messages[state.selectedId]; the textarea shows '' for undefined
ShownMessage(s) ==
  IF ToPropertyKey(s.selectedId) \in DOMAIN s.messages
  THEN s.messages[ToPropertyKey(s.selectedId)] ELSE ""

\* a bug: the position in the rendered list, counted from 1, for contact.id
SelectActionByPosition(c) == [type |-> "changed_selection", contactId |-> c + 1]

\* { type: "changed_selection", contactId: contact.id }
SelectAction(c) == [type |-> "changed_selection", contactId |-> c]

\* { type: "edited_message", message: e.target.value }
EditAction(m) == [type |-> "edited_message", message |-> m]

\* { type: "sent_message" }
SendAction == [type |-> "sent_message"]

MessengerIdle == status = "mounted" /\ queue = <<>>

\* dispatch(action) of useReducer, from an event handler
MessengerDispatch(action) ==
  /\ queue' = Append(queue, [updater |-> TRUE, action |-> action])
  /\ last' = [op |-> "dispatch", action |-> action]
  /\ UNCHANGED <<state, status, history, harnessVars, formVars>>

\* ContactList: onClick of a contact's button
ClickContact ==
  /\ MessengerIdle
  /\ \E c \in ContactIds : MessengerDispatch(SelectAction(c))

\* Chat: onChange of the textarea
ChangeMessage ==
  /\ MessengerIdle
  /\ \E m \in Msgs : m # ShownMessage(state) /\ MessengerDispatch(EditAction(m))

\* Chat: onClick of the Send button
ClickSend ==
  /\ MessengerIdle
  /\ MessengerDispatch(SendAction)

\* React renders the component: the reducer runs on the queued actions, then
\* the body looks the selected contact up and reads contact.id
MessengerRender ==
  /\ status = "mounted"
  /\ queue # <<>>
  /\ LET r == ProcessQueue(state, queue)
         ok == r.ok /\ FindContact(r.value.selectedId).found
     IN /\ state' = IF ok THEN r.value ELSE state
        /\ status' = IF ok THEN "mounted" ELSE "crashed"
        /\ last' = [op |-> "render", action |-> Head(queue).action,
                    before |-> state, threw |-> ~ok,
                    error |-> IF r.ok /\ ~ok THEN "TypeError" ELSE r.error]
  /\ queue' = <<>>
  /\ UNCHANGED <<history, harnessVars, formVars>>

NextMessenger == ClickContact \/ ChangeMessage \/ ClickSend \/ MessengerRender

SpecMessenger == Init /\ [][NextMessenger]_vars

\* C16: the messenger never crashes; its selectedId is always the id of one of
\* the three contacts, and every key of messages is the key of a contact id
C16_SelectedIsContact ==
  /\ status = "mounted"
  /\ state.selectedId \in ContactIds
  /\ FindContact(state.selectedId).found
  /\ DOMAIN state.messages \subseteq Keys

\* every contact has been selected and written to; the last one has a draft
C16_Witness ==
  /\ DOMAIN state.messages = Keys
  /\ state.selectedId = 2
  /\ ShownMessage(state) = "hi"
  /\ last.op = "render"


----------------------------------------------------------------------------
(* Components with an effect (SpecEffects).  One of them is mounted.       *)
(* `hooks` holds its props and useState values as of the last commit,      *)
(* `effects` one record for each run of the effect's setup, in order: the  *)
(* connection, interval or request that run created, with what its         *)
(* closure captured.  `todo` lists the cleanups and setups React has yet   *)
(* to run for the last commit: <<"setup">> after the mount, and            *)
(* <<"setup", "cleanup", "setup">> where StrictMode remounts the component *)
(* in development; after a render that changed a dependency, the cleanup   *)
(* of the last setup and a new setup.  No file of the repository says      *)
(* whether the root is in StrictMode, so both are possible.  State set in  *)
(* a timer or promise callback, and state set in a setup, is rendered      *)
(* before anything else runs; a click or a change is a discrete event,     *)
(* whose render React commits, and whose effects it flushes, before it     *)
(* returns to the event loop: timers and promise callbacks run only when   *)
(* `todo` is empty.                                                        *)

MaxEffects == 4
MaxCount == 3
MaxIncrement == 2
MaxDelaySteps == 2

\* useState(100), and the step of the two delay buttons
DelayInit == 100
DelayStep == 100

SyncChatRoom == "SynchronizingWithEffects.ChatRoom"
IntervalTwice == "FIX_AN_INTERVAL_THAT_FIRES_TWICE"
FetchingBio == "FIX_FETCHING_INSIDE_AN_EFFECT"
EventChatRoom == "SeparatingEventsFromEffects.ChatRoom"
FreezingCounter == "FIX_A_FREEZING_COUNTER"
AdjustableDelay == "FIX_A_NON_ADJUSTABLE_DELAY"

Components ==
  {SyncChatRoom, IntervalTwice, FetchingBio, EventChatRoom, FreezingCounter,
   AdjustableDelay}

\* the options of the select
Persons == {"Alice", "Bob", "Taylor"}

\* the props a parent passes to ChatRoom({ roomId, theme })
Rooms == {"general", "travel"}
Themes == {"light", "dark"}

Null == "null"

\* fetchBio resolves with `This is ${person}'s bio.`
BioOf(person) == "This is " \o person \o "'s bio."

\* the useState initial values; the props of ChatRoom are the parent's choice
InitialHooks(c) ==
  CASE c = SyncChatRoom -> {<<>>}
    [] c = IntervalTwice -> {[count |-> 0]}
    [] c = FetchingBio -> {[person |-> "Alice", bio |-> Null]}
    [] c = EventChatRoom -> [roomId : Rooms, theme : Themes]
    [] c = FreezingCounter -> {[count |-> 0, increment |-> 1]}
    [] c = AdjustableDelay -> {[count |-> 0, increment |-> 1, delay |-> DelayInit]}

\* a bug: increment listed as a dependency of the counters' effects
DepsWithIncrement(c, h) ==
  CASE c = FetchingBio -> <<h.person>>
    [] c = EventChatRoom -> <<h.roomId, h.theme>>
    [] c = FreezingCounter -> <<h.increment>>
    [] c = AdjustableDelay -> <<h.delay, h.increment>>
    [] OTHER -> <<>>

\* the dependency array of the component's useEffect
Deps(c, h) ==
  CASE c = FetchingBio -> <<h.person>>
    [] c = EventChatRoom -> <<h.roomId, h.theme>>
    [] c = AdjustableDelay -> <<h.delay>>
    [] OTHER -> <<>>

\* the effect's setup, run for the render that committed h
Setup(c, h, effs) ==
  CASE c = SyncChatRoom ->
         [hooks |-> h,
          effects |-> Append(effs, [kind |-> "connection", log |-> <<"connect">>])]
    [] c = IntervalTwice ->
         [hooks |-> h,
          effects |-> Append(effs, [kind |-> "interval", active |-> TRUE])]
    [] c = FetchingBio ->
         [hooks |-> [h EXCEPT !.bio = Null],
          effects |-> Append(effs, [kind |-> "request", person |-> h.person,
                                    ignore |-> FALSE, result |-> "pending"])]
    [] c = EventChatRoom ->
         [hooks |-> h,
          effects |-> Append(effs, [kind |-> "connection", roomId |-> h.roomId,
                                    theme |-> h.theme, timeout |-> "pending",
                                    shown |-> "nothing"])]
    [] c = FreezingCounter ->
         [hooks |-> h,
          effects |-> Append(effs, [kind |-> "interval", active |-> TRUE,
                                    increment |-> h.increment])]
    [] c = AdjustableDelay ->
         [hooks |-> h,
          effects |-> Append(effs, [kind |-> "interval", active |-> TRUE,
                                    increment |-> h.increment, delay |-> h.delay])]

\* a bug: an effect that returns no cleanup
CleanupMissing(c, effs) == effs

\* the cleanup the last setup returned
Cleanup(c, effs) ==
  LET n == Len(effs)
  IN CASE c = SyncChatRoom ->
            [effs EXCEPT ![n].log = Append(effs[n].log, "disconnect")]
       [] c \in {IntervalTwice, FreezingCounter, AdjustableDelay} ->
            [effs EXCEPT ![n].active = FALSE]
       [] c = FetchingBio -> [effs EXCEPT ![n].ignore = TRUE]
       [] c = EventChatRoom ->
            [effs EXCEPT ![n].timeout =
               IF effs[n].timeout = "pending" THEN "cleared" ELSE effs[n].timeout]


\* a bug: setCount(prev => prev + increment) in a plain closure of the effect,
\* which sees the increment of the render that set the interval up
onIncrementStale(h, eff) == eff.increment

\* onIncrement / onTick, an Effect Event: setCount(prev => prev + increment)
\* with the increment of the latest render; the amount it adds
onIncrement(h, eff) == h.increment

\* what one firing of the interval's callback adds to count
TickAmount(c, h, eff) == IF c = IntervalTwice THEN 1 ELSE onIncrement(h, eff)

\* count after the callbacks of the active intervals have run, once each, in
\* the order the intervals were created
RECURSIVE FireIntervals(_, _, _, _)
FireIntervals(c, h, effs, count) ==
  IF effs = <<>> THEN count
  ELSE FireIntervals(c, h, Tail(effs),
         IF Head(effs).active THEN count + TickAmount(c, h, Head(effs)) ELSE count)

\* a bug: the response sets bio whether or not the cleanup has run
ShouldSetBioAlways(ignore) == TRUE

\* !ignore && setBio(result)
ShouldSetBio(ignore) == ~ignore

appVars == <<hookVars, harnessVars, text, gameVars>>

InitEffects ==
  /\ InitHook
  /\ heap = <<>>
  /\ calls = <<>>
  /\ nextId = NextIdInit
  /\ comp \in Components
  /\ hooks \in InitialHooks(comp)
  /\ effects = <<>>
  /\ todo \in {<<"setup">>, <<"setup", "cleanup", "setup">>}
  /\ InitNoGame

\* React runs the next pending setup
RunSetup ==
  /\ todo # <<>> /\ Head(todo) = "setup"
  /\ hooks' = Setup(comp, hooks, effects).hooks
  /\ effects' = Setup(comp, hooks, effects).effects
  /\ todo' = Tail(todo)
  /\ UNCHANGED <<comp, appVars>>

\* React runs the next pending cleanup
RunCleanup ==
  /\ todo # <<>> /\ Head(todo) = "cleanup"
  /\ effects' = Cleanup(comp, effects)
  /\ todo' = Tail(todo)
  /\ UNCHANGED <<comp, hooks, appVars>>

\* a render that commits h: the effect is re-run if a dependency changed
Commit(h) ==
  /\ todo = <<>>
  /\ Deps(comp, h) # Deps(comp, hooks) => Len(effects) < MaxEffects
  /\ hooks' = h
  /\ todo' = IF Deps(comp, h) # Deps(comp, hooks) THEN <<"cleanup", "setup">>
             ELSE <<>>
  /\ UNCHANGED <<comp, effects, appVars>>

\* the select's onChange: setPerson(e.target.value)
SelectPerson ==
  /\ comp = FetchingBio
  /\ \E p \in Persons \ {hooks.person} : Commit([hooks EXCEPT !.person = p])

\* the timer of the oldest pending fetchBio fires and the promise resolves
ResolveFetch ==
  /\ comp = FetchingBio
  /\ todo = <<>>
  /\ \E k \in 1..Len(effects) :
       /\ effects[k].result = "pending"
       /\ \A j \in 1..(k - 1) : effects[j].result # "pending"
       /\ IF ShouldSetBio(effects[k].ignore)
          THEN /\ hooks' = [hooks EXCEPT !.bio = BioOf(effects[k].person)]
               /\ effects' = [effects EXCEPT ![k].result = "set"]
          ELSE /\ hooks' = hooks
               /\ effects' = [effects EXCEPT ![k].result = "dropped"]
  /\ UNCHANGED <<comp, todo, appVars>>

\* an interval period passes: the callback of every active interval runs
Tick ==
  /\ comp \in {IntervalTwice, FreezingCounter, AdjustableDelay}
  /\ todo = <<>>
  /\ hooks.count < MaxCount
  /\ hooks' = [hooks EXCEPT !.count = FireIntervals(comp, hooks, effects, hooks.count)]
  /\ UNCHANGED <<comp, effects, todo, appVars>>

\* the Reset button: setCount(0)
ResetCount ==
  /\ comp \in {FreezingCounter, AdjustableDelay}
  /\ Commit([hooks EXCEPT !.count = 0])

\* the increment buttons: setIncrement(i => i - 1), disabled at 0, and
\* setIncrement(i => i + 1)
IncrementMinus ==
  /\ comp \in {FreezingCounter, AdjustableDelay}
  /\ hooks.increment # 0
  /\ Commit([hooks EXCEPT !.increment = hooks.increment - 1])

IncrementPlus ==
  /\ comp \in {FreezingCounter, AdjustableDelay}
  /\ hooks.increment < MaxIncrement
  /\ Commit([hooks EXCEPT !.increment = hooks.increment + 1])

\* the delay buttons: setDelay(d => d - 100), disabled at 100, and
\* setDelay(d => d + 100)
DelayMinus ==
  /\ comp = AdjustableDelay
  /\ hooks.delay # DelayInit
  /\ Commit([hooks EXCEPT !.delay = hooks.delay - DelayStep])

DelayPlus ==
  /\ comp = AdjustableDelay
  /\ hooks.delay < DelayInit + MaxDelaySteps * DelayStep
  /\ Commit([hooks EXCEPT !.delay = hooks.delay + DelayStep])

\* the parent renders ChatRoom with another roomId, or another theme
SetRoom ==
  /\ comp = EventChatRoom
  /\ \E r \in Rooms \ {hooks.roomId} : Commit([hooks EXCEPT !.roomId = r])

SetTheme ==
  /\ comp = EventChatRoom
  /\ \E t \in Themes \ {hooks.theme} : Commit([hooks EXCEPT !.theme = t])

\* the timeout connect() has set fires: the 'connected' callback shows the
\* notification, with the theme of the render whose effect registered it
ConnectedTimeout ==
  /\ comp = EventChatRoom
  /\ todo = <<>>
  /\ \E k \in 1..Len(effects) :
       /\ effects[k].timeout = "pending"
       /\ effects' = [effects EXCEPT ![k].timeout = "fired",
                                     ![k].shown = effects[k].theme]
  /\ UNCHANGED <<comp, hooks, todo, appVars>>

NextEffects ==
  \/ RunSetup
  \/ RunCleanup
  \/ SelectPerson
  \/ ResolveFetch
  \/ Tick
  \/ ResetCount
  \/ IncrementMinus
  \/ IncrementPlus
  \/ DelayMinus
  \/ DelayPlus
  \/ SetRoom
  \/ SetTheme
  \/ ConnectedTimeout

SpecEffects == InitEffects /\ [][NextEffects]_vars


----------------------------------------------------------------------------
(* Properties of the components with an effect (SpecEffects).              *)

\* the runs of the setup whose resource is still live: a connection that
\* was not disconnected, an interval that was not cleared, a request whose
\* response is not ignored
IsLive(eff) ==
  CASE eff.kind = "interval" -> eff.active
    [] eff.kind = "request" -> ~eff.ignore
    [] eff.kind = "connection" ->
         IF "log" \in DOMAIN eff THEN eff.log = <<"connect">>
         ELSE eff.timeout # "cleared"

Live(effs) == SelectSeq(effs, IsLive)

\* the request of index k is answered in this step
Answered(k) ==
  /\ k \in 1..Len(effects)
  /\ effects[k].result = "pending"
  /\ effects'[k].result # "pending"

\* C17 as stated: in every state, bio is null or the bio of the selected person
C17_Original ==
  comp = FetchingBio => hooks.bio \in {Null, BioOf(hooks.person)}

StaleIgnoredStep ==
  comp = FetchingBio =>
       /\ todo' = <<>> => hooks'.bio \in {Null, BioOf(hooks'.person)}
       /\ \A k \in 1..Len(effects) :
            (Answered(k) /\ effects[k].ignore) => hooks'.bio = hooks.bio

\* C17: once the effect of the last commit has run, bio is null or the bio
\* of the selected person; and the response to a request whose cleanup has
\* run (the selection has changed since) leaves bio as it is
C17_StaleIgnored == [][StaleIgnoredStep]_vars

\* the response for a person selected earlier has arrived and was dropped,
\* and bio is the bio of the person selected now
C17_Witness ==
  /\ comp = FetchingBio
  /\ todo = <<>>
  /\ hooks.bio = BioOf(hooks.person)
  /\ \E k \in 1..Len(effects) :
       effects[k].result = "dropped" /\ effects[k].person # hooks.person

RemountIdempotentStep ==
  comp \in {SyncChatRoom, IntervalTwice} =>
       /\ todo' = <<>> =>
            /\ Len(Live(effects')) = 1
            /\ \E h \in InitialHooks(comp) :
                 Live(effects') = Setup(comp, h, <<>>).effects
       /\ (comp = IntervalTwice /\ hooks'.count # hooks.count) =>
            hooks'.count = hooks.count + 1

\* C18: when the mount is complete, with or without the remount, what is
\* live is what one setup on the initial render leaves: one connection that
\* is connected and not disconnected in ChatRoom, one active interval in
\* FIX_AN_INTERVAL_THAT_FIRES_TWICE, where every tick adds exactly 1 to count
C18_RemountIdempotent == [][RemountIdempotentStep]_vars

\* the interval was set up, cleared and set up again, and has ticked twice
C18_Witness ==
  /\ comp = IntervalTwice
  /\ todo = <<>>
  /\ Len(effects) = 2
  /\ ~effects[1].active /\ effects[2].active
  /\ hooks.count = 2

\* the connection of index k shows its notification in this step
Notified(k) ==
  /\ k \in 1..Len(effects)
  /\ effects[k].timeout = "pending"
  /\ effects'[k].timeout = "fired"

OnlyRoomReconnectsStep ==
  comp = EventChatRoom =>
       /\ (hooks'.theme # hooks.theme /\ hooks'.roomId = hooks.roomId) =>
            (todo' = <<>> /\ effects' = effects)
       /\ hooks'.roomId # hooks.roomId => todo' = <<"cleanup", "setup">>
       /\ \A k \in 1..Len(effects) :
            Notified(k) => effects'[k].shown = hooks.theme

\* C19: a render that changes only theme schedules no cleanup and no setup
\* and leaves the connections as they are; a render that changes roomId
\* schedules the cleanup and a setup; the notification is shown with the
\* theme of the latest render
C19_OnlyRoomReconnects == [][OnlyRoomReconnectsStep]_vars

IntervalsStep ==
  /\ comp = FreezingCounter =>
          /\ todo = <<>> => (todo' = <<>> /\ effects' = effects)
          /\ todo' = <<>> => Len(Live(effects')) = 1
          /\ (hooks'.count # hooks.count /\ hooks'.count # 0) =>
               hooks'.count = hooks.count + hooks.increment
  /\ comp = AdjustableDelay =>
          /\ Len(Live(effects')) <= 1
          /\ todo = <<>> =>
               /\ hooks'.delay # hooks.delay <=> todo' = <<"cleanup", "setup">>
               /\ hooks'.delay = hooks.delay => (todo' = <<>> /\ effects' = effects)
          /\ todo' = <<>> =>
               /\ Len(Live(effects')) = 1
               /\ Live(effects')[1].delay = hooks'.delay
          /\ (hooks'.count # hooks.count /\ hooks'.count # 0) =>
               hooks'.count = hooks.count + hooks.increment

\* C20: in FIX_A_FREEZING_COUNTER, once mounted, one interval is active and
\* no step clears it or sets another up, whatever increment becomes, and a
\* tick adds the increment of the latest render; in
\* FIX_A_NON_ADJUSTABLE_DELAY at most one interval is active, a render
\* re-runs the effect exactly if it changed delay, and once the effect has
\* run the active interval has the delay of the latest render
C20_Intervals == [][IntervalsStep]_vars

\* the delay was changed twice and the increment once since the mount: the
\* third interval is the active one, and it has ticked with the new increment
C20_Witness ==
  /\ comp = AdjustableDelay
  /\ todo = <<>>
  /\ Len(effects) = 3
  /\ Len(Live(effects)) = 1
  /\ effects[3].active /\ effects[3].delay = hooks.delay
  /\ hooks.increment = 2 /\ effects[3].increment = 1
  /\ hooks.count = 3


----------------------------------------------------------------------------
(* Game and GAME_CHAIN (SpecGame), run side by side on the same cards.     *)
(* Neither component renders anything or is used in the file, so who calls *)
(* handlePlaceCard is not in the code: it is taken to be an event handler  *)
(* of a discrete event, so that the state it sets is rendered, and the     *)
(* effects of GAME_CHAIN have run until none has a changed dependency,     *)
(* before it is called again.  A card is an object { gold }: `ref` stands  *)
(* for its identity, which is what useEffect compares for [card]; ref 0 is *)
(* null.  The caller places a new object or the object it placed last.     *)
(* The effects of the mount find card null, goldCardCount 0 and round 1    *)
(* and set nothing, so the model starts after them.                        *)

NoCard == [ref |-> 0, gold |-> FALSE]

\* a bug: the game ends one round later
isGameOverLate(round) == round > 6

\* Game: const isGameOver = round > 5
isGameOver(round) == round > 5

\* Game: handlePlaceCard(nextCard), and the render of what it set
GamePlaceCard(g, nextCard) ==
  IF isGameOver(g.round)
  THEN [state |-> g, threw |-> TRUE, alerted |-> FALSE]
  ELSE IF ~nextCard.gold
  THEN [state |-> [g EXCEPT !.card = nextCard], threw |-> FALSE, alerted |-> FALSE]
  ELSE IF g.goldCardCount <= 3
  THEN [state |-> [g EXCEPT !.card = nextCard,
                            !.goldCardCount = g.goldCardCount + 1],
        threw |-> FALSE, alerted |-> FALSE]
  ELSE [state |-> [g EXCEPT !.card = nextCard, !.round = g.round + 1,
                            !.goldCardCount = 0],
        threw |-> FALSE, alerted |-> (g.round = 5)]

\* GAME_CHAIN: handlePlaceCard(nextCard), and the render of what it set
ChainPlaceCard(c, nextCard) ==
  IF c.isGameOver THEN [state |-> c, threw |-> TRUE]
  ELSE [state |-> [c EXCEPT !.card = nextCard], threw |-> FALSE]

\* the dependencies of the three effects, in the render c
ChainDeps(c) == [card |-> c.card, goldCardCount |-> c.goldCardCount, round |-> c.round]

\* no effect of GAME_CHAIN has a dependency that changed since it last ran
Settled(c) == ChainDeps(c) = c.ran

\* the effects of the render c whose dependency changed run, in order, and
\* the updates they queue are rendered
RunChainEffects(c) ==
  LET gold == c.card # c.ran.card /\ c.card.ref # 0 /\ c.card.gold
      full == c.goldCardCount # c.ran.goldCardCount /\ c.goldCardCount > 3
      over == c.round # c.ran.round /\ c.round > 5
  IN [card |-> c.card,
      goldCardCount |-> IF full THEN 0
                        ELSE IF gold THEN c.goldCardCount + 1
                        ELSE c.goldCardCount,
      round |-> IF full THEN c.round + 1 ELSE c.round,
      isGameOver |-> (over \/ c.isGameOver),
      ran |-> ChainDeps(c)]

\* the objects the caller can place: a new card, gold or not (its ref is not
\* that of the card placed last), or the card placed last
NextCards(lastCard) ==
  {[ref |-> r, gold |-> g] : r \in {1, 2} \ {lastCard.ref}, g \in BOOLEAN}
  \cup (IF lastCard.ref = 0 THEN {} ELSE {lastCard})

InitGame ==
  /\ InitHook
  /\ InitNoEffect
  /\ heap = <<>>
  /\ calls = <<>>
  /\ nextId = NextIdInit
  /\ game = [card |-> NoCard, goldCardCount |-> 0, round |-> 1]
  /\ chain = [card |-> NoCard, goldCardCount |-> 0, round |-> 1,
              isGameOver |-> FALSE,
              ran |-> [card |-> NoCard, goldCardCount |-> 0, round |-> 1]]
  /\ placed = [card |-> NoCard, gameThrew |-> FALSE, chainThrew |-> FALSE,
               alerted |-> FALSE, before |-> game]

\* the same card is placed on both games
PlaceCard ==
  /\ Settled(chain)
  /\ \E nextCard \in NextCards(placed.card) :
       /\ game' = GamePlaceCard(game, nextCard).state
       /\ chain' = ChainPlaceCard(chain, nextCard).state
       /\ placed' = [card |-> nextCard,
                     gameThrew |-> GamePlaceCard(game, nextCard).threw,
                     chainThrew |-> ChainPlaceCard(chain, nextCard).threw,
                     alerted |-> GamePlaceCard(game, nextCard).alerted,
                     before |-> game]
  /\ UNCHANGED <<hookVars, harnessVars, text, effectVars>>

\* React runs the effects of GAME_CHAIN's last render
ChainEffects ==
  /\ ~Settled(chain)
  /\ chain' = RunChainEffects(chain)
  /\ UNCHANGED <<game, placed, hookVars, harnessVars, text, effectVars>>

NextGame == PlaceCard \/ ChainEffects

SpecGame == InitGame /\ [][NextGame]_vars

\* C21: once the effects of GAME_CHAIN have settled, both games are in the
\* same round, both are over or neither is, and the last handlePlaceCard
\* call raised in both or in neither
C21_Equivalent ==
  Settled(chain) =>
    /\ chain.round = game.round
    /\ chain.isGameOver = isGameOver(game.round)
    /\ placed.chainThrew = placed.gameThrew

\* C22: in Game, handlePlaceCard raises exactly if round > 5 when it is
\* called, a call that raises leaves card, goldCardCount and round as they
\* were, and round is never more than 6
C22_GameOver ==
  /\ placed.gameThrew <=> placed.before.round > 5
  /\ placed.gameThrew => game = placed.before
  /\ game.round >= 1 /\ game.round <= 6
  /\ isGameOver(game.round) <=> game.round = 6

\* the game is over, and a gold card placed after that was refused
C22_Witness ==
  /\ game.round = 6
  /\ placed.gameThrew
  /\ placed.card.gold
  /\ placed.card # game.card

====
